---- MODULE Spec2Model ----
(***************************************************************************)
(* iterable-js: the Iterable wrapper (src/iterable.js, held in             *)
(* src/src/internal/dependency.js from line 36 on) and the operators it    *)
(* delegates to.  A Sequence is modelled by a descriptor record; one       *)
(* traversal step is one next() call on the iterator of a Sequence.        *)
(*                                                                         *)
(* The operator bodies cache, split, spanWith, breakWith, partition, zip,   *)
(* equal, sort, sorted, reduce, scan, empty, skip, compose and toArray      *)
(* (src/internal/<name>.js) and the helpers of                              *)
(* src/internal/utils.js are not among the source files: they are modelled  *)
(* from sections 3, 4 and 7 of the specification.  The class Iterable       *)
(* (constructor, get, the Proxy trap, [ITERATOR] and the methods that call  *)
(* the operators), defaultIfEmpty (src/internal/defaultIfEmpty.js) and      *)
(* intersect (src/unnamed/part_000) are modelled from the source.           *)
(***************************************************************************)
EXTENDS Integers, Sequences, FiniteSets, TLC

\* ------------------------------------------------------------------ bounds
MaxLen == 3        \* longest upstream source
MaxValue == 2      \* elements are 1..MaxValue
NumTrav == 2       \* traversals of one cached Sequence

Values == 1..MaxValue
Travs == 1..NumTrav

SeqsUpTo(n) == UNION {[1..m -> Values] : m \in 0..n}

\* A source handed to an operator: an array (every [ITERATOR]() call gives a
\* fresh iterator) or a generator object (its [ITERATOR]() returns itself).
ArraySource(items) == [kind |-> "multi", items |-> items]
GeneratorObject(items) == [kind |-> "single", items |-> items]
Sources == {ArraySource(s) : s \in SeqsUpTo(MaxLen)}
             \cup {GeneratorObject(s) : s \in SeqsUpTo(MaxLen)}


\* ------------------------------------------------------------------ state
VARIABLES
  sys,       \* the subsystem this behaviour exercises
  call,      \* the operator call the caller made
  it,        \* the source passed to the call
  arg,       \* the other argument of the call (cutoff, predicate, combiner)
  seq,       \* the Sequence descriptor the call returned
  upPos,     \* cursor of the shared upstream iterator (elements drained)
  produced,  \* history: the elements the upstream produced, in order
  pulls,     \* history: next() calls made on the upstream
  pullsAt,   \* history: ordinal -> upstream pulls made to serve it
  buffer,    \* Replay Buffer of cache
  terminal,  \* Replay Buffer's terminal flag
  tst,       \* traversal -> "idle" | "run" | "done"
  tpos,      \* traversal -> ordinal of the next element it asks for
  tout,      \* traversal -> the elements it has yielded
  overlap,   \* history: two traversals were in progress at the same time
  flipped,   \* spanWith/breakWith: the first predicate flip has happened
  bbuf,      \* branch -> Branch Buffer (elements waiting for that branch)
  bst,       \* branch -> "idle" | "run" | "done"
  bout,      \* branch -> the elements delivered to that branch
  zpos,      \* zip: input -> elements pulled from it
  zst,       \* zip: "run" | "done"
  zout,      \* zip: the values yielded
  shape,     \* eager operators: "static" | "method", the call shape used
  est,       \* eager operators: "built" | "run" | "done"
  res,       \* eager operators: the items the traversal has yielded
  closed,    \* wrapper: the wrapped generator object has been closed
  glast,     \* wrapper: the last get / index access and what it returned
  lcur,      \* lazy operators: source name -> cursor of that generator object
  linv,      \* compose: the number of composers invoked by the call
  lit,       \* lazy operators: traversal -> state of its iterator
  lgot       \* history: traversal -> the elements the source A gave to it

cacheVars == <<upPos, produced, pulls, pullsAt, buffer, terminal, tst, tpos, tout,
              overlap>>
splitVars == <<flipped, bbuf, bst, bout>>
zipVars == <<zpos, zst, zout>>
eagerVars == <<shape, est, res>>
wrapVars == <<closed, glast>>
lazyVars == <<lcur, linv, lit, lgot>>
vars == <<sys, call, it, arg, seq, cacheVars, splitVars, zipVars, eagerVars,
          wrapVars, lazyVars>>

\* --------------------------------------------------- the Iterable wrapper
\* A generator procedure (function*): every call of it gives a new generator
\* object that starts from the first element.
GeneratorFunction(items) == [kind |-> "genfn", items |-> items]

\* values that are neither a generator procedure nor iterable
InvalidKinds == {"undefined", "null", "number", "object"}
InvalidValues == {[kind |-> k, items |-> <<>>] : k \in InvalidKinds}

\* it.constructor.name; reading a property of undefined or null throws.  The
\* constructor property of a generator object is the prototype object of its
\* generator procedure, whose name is the empty string.
ConstructorName(src) ==
  CASE src.kind = "genfn" -> "GeneratorFunction"
    [] src.kind = "multi" -> "Array"
    [] src.kind = "single" -> ""
    [] src.kind = "number" -> "Number"
    [] src.kind = "object" -> "Object"
    [] src.kind \in {"undefined", "null"} -> "TypeError"

\* isIterable of internal/utils: the value exposes the iteration capability
isIterable(src) == src.kind \in {"multi", "single"}

\* the constructor ended by throwing
Throw(e) == [op |-> "throw", error |-> e]

\* new Iterable(it): keeps the reference it was given, or throws.
Iterable_new(src) ==
  IF ConstructorName(src) = "TypeError" THEN Throw("TypeError")
  ELSE IF ConstructorName(src) = "GeneratorFunction" THEN [op |-> "plain", up |-> src]
  ELSE IF isIterable(src) THEN [op |-> "plain", up |-> src]
  ELSE Throw("BadArgumentError")

\* the generator procedure taken for an iterator that returns itself
FreshIterator_selfStarting(src) == src.kind = "multi"
\* this.it[ITERATOR]() gives an iterator of its own: an array makes a new
\* array iterator; a generator procedure was given it[ITERATOR] = it, so the
\* call invokes the procedure, which makes a new generator object.  A
\* generator object returns itself.
FreshIterator(src) == src.kind \in {"multi", "genfn"}

\* cache(it): a new Sequence backed by one Replay Buffer over `it`.
cache(src) == [op |-> "cache", up |-> src]

\* the source wrapped as it is, without a Replay Buffer
Iterable_cache_uncached(src) == Iterable_new(src)
\* static cache(it) { return cache(it); }
Iterable_cache(src) == cache(src)

\* ------------------------------------------------------- upstream producer
\* One next() call on the upstream at cursor p: <<v>> or <<>> on completion.
UpstreamNext(src, p) == IF p < Len(src.items) THEN <<src.items[p + 1]>> ELSE <<>>

\* --------------------------------------------------------------- cache step
\* the element put at the front of the buffer instead of its end
BufferAppend_unshift(buf, v) == <<v>> \o buf
\* append to the Replay Buffer
BufferAppend(buf, v) == Append(buf, v)

\* ordinal i is served from the buffer
Replayable(i, buf) == i < Len(buf)

\* One step of a traversal of the cached Sequence asking for ordinal i.
\* c = [buffer, terminal, upPos]; the result adds what was yielded (out),
\* whether the traversal ended (done) and what the upstream was asked (got,
\* pulled).
cacheNext(c, i, src) ==
  IF Replayable(i, c.buffer)
  THEN [buffer |-> c.buffer, terminal |-> c.terminal, upPos |-> c.upPos,
        out |-> <<c.buffer[i + 1]>>, done |-> FALSE, got |-> <<>>, pulled |-> 0]
  ELSE IF ~c.terminal
  THEN LET r == UpstreamNext(src, c.upPos) IN
       IF r # <<>>
       THEN [buffer |-> BufferAppend(c.buffer, r[1]), terminal |-> FALSE,
             upPos |-> c.upPos + 1,
             out |-> r, done |-> FALSE, got |-> r, pulled |-> 1]
       ELSE [buffer |-> c.buffer, terminal |-> TRUE, upPos |-> c.upPos,
             out |-> <<>>, done |-> TRUE, got |-> <<>>, pulled |-> 1]
  ELSE [buffer |-> c.buffer, terminal |-> TRUE, upPos |-> c.upPos,
        out |-> <<>>, done |-> TRUE, got |-> <<>>, pulled |-> 0]

\* One step of a traversal of a Sequence that wraps the source directly:
\* [ITERATOR]() { return this.it[ITERATOR](); } gives an iterator of its own
\* (position i) or the generator object itself (shared cursor).
plainNext(c, i, src) ==
  LET p == IF FreshIterator(src) THEN i ELSE c.upPos
      r == UpstreamNext(src, p)
  IN [buffer |-> c.buffer, terminal |-> c.terminal,
      upPos |-> IF ~FreshIterator(src) /\ r # <<>> THEN c.upPos + 1 ELSE c.upPos,
      out |-> r, done |-> (r = <<>>), got |-> r, pulled |-> 1]

SequenceNext(s, c, i) ==
  IF s.op = "cache" THEN cacheNext(c, i, s.up) ELSE plainNext(c, i, s.up)

\* the cache subsystem's variables while another subsystem runs; upPos,
\* produced and pulls describe the shared upstream in every subsystem
CacheIdle ==
  /\ pullsAt = <<>>
  /\ buffer = <<>>
  /\ terminal = FALSE
  /\ tst = <<>>
  /\ tpos = <<>>
  /\ tout = <<>>
  /\ overlap = FALSE

\* the eager operators' variables while another subsystem runs
EagerIdle ==
  /\ shape = "none"
  /\ est = "none"
  /\ res = <<>>

\* the wrapper's own variables while another subsystem runs
WrapIdle ==
  /\ closed = FALSE
  /\ glast = "none"

\* the lazy operators' variables while another subsystem runs
LazyIdle ==
  /\ lcur = <<>>
  /\ linv = 0
  /\ lit = <<>>
  /\ lgot = <<>>

\* the zip subsystem's variables while another subsystem runs
ZipIdle ==
  /\ zpos = <<>>
  /\ zst = "none"
  /\ zout = <<>>

\* the split subsystem's variables while another subsystem runs
SplitIdle ==
  /\ flipped = FALSE
  /\ bbuf = <<>>
  /\ bst = <<>>
  /\ bout = <<>>

\* ------------------------------------------------------------ cache actions
InitCache ==
  /\ sys = "cache"
  /\ it \in Sources
  /\ call \in {"cache", "new"}
  /\ arg = "none"
  /\ seq = IF call = "cache" THEN Iterable_cache(it) ELSE Iterable_new(it)
  /\ upPos = 0
  /\ produced = <<>>
  /\ pulls = 0
  /\ pullsAt = [i \in 0..(MaxLen + 1) |-> 0]
  /\ buffer = <<>>
  /\ terminal = FALSE
  /\ tst = [t \in Travs |-> "idle"]
  /\ tpos = [t \in Travs |-> 0]
  /\ tout = [t \in Travs |-> <<>>]
  /\ overlap = FALSE
  /\ SplitIdle
  /\ ZipIdle
  /\ EagerIdle
  /\ LazyIdle
  /\ WrapIdle

\* for (const x of seq): the traversal obtains its iterator.
Begin(t) ==
  /\ sys = "cache"
  /\ tst[t] = "idle"
  /\ tst' = [tst EXCEPT ![t] = "run"]
  /\ overlap' = (overlap \/ \E u \in Travs : tst[u] = "run")
  /\ UNCHANGED <<lazyVars, sys, call, it, arg, seq, upPos, produced, pulls, pullsAt,
                 buffer, terminal, tpos, tout, splitVars, zipVars, eagerVars,
                 wrapVars>>

\* one next() call of traversal t
Step(t) ==
  /\ sys = "cache"
  /\ tst[t] = "run"
  /\ LET c == [buffer |-> buffer, terminal |-> terminal, upPos |-> upPos]
         r == SequenceNext(seq, c, tpos[t])
     IN /\ buffer' = r.buffer
        /\ terminal' = r.terminal
        /\ upPos' = r.upPos
        /\ produced' = produced \o r.got
        /\ pulls' = pulls + r.pulled
        /\ pullsAt' = [pullsAt EXCEPT ![tpos[t]] = @ + r.pulled]
        /\ tout' = [tout EXCEPT ![t] = @ \o r.out]
        /\ tpos' = [tpos EXCEPT ![t] = @ + Len(r.out)]
        /\ tst' = [tst EXCEPT ![t] = IF r.done THEN "done" ELSE "run"]
  /\ UNCHANGED <<lazyVars, sys, call, it, arg, seq, overlap, splitVars, zipVars,
                 eagerVars, wrapVars>>

NextCache == \E t \in Travs : Begin(t) \/ Step(t)

SpecCache == InitCache /\ [][NextCache]_vars

\* ------------------------------------------------------------ cache claims
IsPrefix(a, b) == Len(a) <= Len(b) /\ SubSeq(b, 1, Len(a)) = a

\* C1: the Replay Buffer holds exactly the first Len(buffer) elements the
\* upstream has produced, in production order, whatever traversals are in
\* progress; a step only ever appends to it (no entry is changed, removed or
\* reordered).
C1_ReplayBufferInvariant ==
  /\ [](call = "cache" =>
          /\ buffer = SubSeq(produced, 1, Len(buffer))
          /\ IsPrefix(produced, it.items))
  /\ [][call = "cache" => IsPrefix(buffer, buffer')]_vars

C1_Witness ==
  /\ call = "cache"
  /\ overlap
  /\ tst[1] = "run" /\ tst[2] = "run"
  /\ tpos[1] = 0 /\ tpos[2] = 2
  /\ Len(buffer) = 2 /\ buffer[1] # buffer[2]

\* C2: across all traversals of one cached Sequence the upstream is pulled at
\* most once for each ordinal, and a step asking for an ordinal below
\* Len(buffer) is served from the buffer without touching the upstream.
C2_PullOncePerOrdinal ==
  /\ [](call = "cache" => \A i \in DOMAIN pullsAt : pullsAt[i] <= 1)
  /\ [][call = "cache" =>
          \A t \in Travs :
            (tst[t] = "run" /\ tpos[t] < Len(buffer) /\ tout'[t] # tout[t])
              => /\ pulls' = pulls /\ upPos' = upPos /\ produced' = produced
                 /\ tout'[t] = Append(tout[t], buffer[tpos[t] + 1])]_vars

C2_Witness ==
  /\ call = "cache"
  /\ overlap
  /\ Len(it.items) >= 2
  /\ tst[1] = "done" /\ tst[2] = "run" /\ tpos[2] = 1
  /\ pulls = Len(it.items) + 1

\* C3: a cached finite single-pass source of length n, traversed completely
\* one or more times in sequence, is asked for exactly n elements in total;
\* once one traversal has completed the upstream is never advanced again.
C3_PullsOnceInTotal ==
  /\ []((call = "cache" /\ it.kind = "single" /\ \E t \in Travs : tst[t] = "done")
          => /\ Len(produced) = Len(it.items)
             /\ upPos = Len(it.items)
             /\ pulls = Len(it.items) + 1)
  /\ [][(call = "cache" /\ it.kind = "single" /\ \E t \in Travs : tst[t] = "done")
          => pulls' = pulls /\ upPos' = upPos /\ produced' = produced]_vars

C3_Witness ==
  /\ call = "cache" /\ it.kind = "single"
  /\ ~overlap
  /\ Len(it.items) >= 2
  /\ \A t \in Travs : tst[t] = "done" /\ Len(tout[t]) = Len(it.items)
  /\ Len(produced) = Len(it.items)

\* C4: every complete traversal of cache(S) yields the elements the upstream
\* produced when it was first driven, so any two complete traversals yield
\* the same sequence; a traversal in progress has yielded a prefix of it.
C4_SameSequenceEveryTraversal ==
  call = "cache" =>
    \A t \in Travs :
      /\ IsPrefix(tout[t], produced)
      /\ tst[t] = "done" => tout[t] = produced /\ tout[t] = it.items
      /\ \A u \in Travs : (tst[t] = "done" /\ tst[u] = "done") => tout[t] = tout[u]

C4_Witness ==
  /\ call = "cache" /\ it.kind = "single"
  /\ \A t \in Travs : tst[t] = "done"
  /\ Len(tout[1]) >= 2 /\ tout[1][1] # tout[1][2]
  /\ tout[2] = tout[1]

\* ================================================= split and partition
Branches == {"A", "B"}

\* predicates the caller may pass
Preds == {"isOdd", "gt1"}
Holds(p, v) == IF p = "isOdd" THEN v % 2 = 1 ELSE v > 1

\* cutoffs the caller may pass to split: negative, zero, up to and beyond
\* the source length
Cutoffs == (0 - 2)..(MaxLen + 5)

\* The pair of Sequences each operator returns shares one descriptor.
split(src, amount) == [op |-> "split", up |-> src, arg |-> amount]
spanWith(src, predicate) == [op |-> "spanWith", up |-> src, arg |-> predicate]
breakWith(src, predicate) == [op |-> "breakWith", up |-> src, arg |-> predicate]
partition(src, predicate) == [op |-> "partition", up |-> src, arg |-> predicate]

\* the cutoff passed on shifted by one
Iterable_split_offByOne(src, amount) == split(src, amount + 1)
\* static split(it, amount) { return split(it, amount); }
Iterable_split(src, amount) == split(src, amount)

\* the neighbouring operator called in place of spanWith
Iterable_spanWith_asBreakWith(src, predicate) == breakWith(src, predicate)
\* static spanWith(it, predicate) { return spanWith(it, predicate); }
Iterable_spanWith(src, predicate) == spanWith(src, predicate)

\* the neighbouring operator called in place of breakWith
Iterable_breakWith_asSpanWith(src, predicate) == spanWith(src, predicate)
\* static breakWith(it, predicate) { return breakWith(it, predicate); }
Iterable_breakWith(src, predicate) == breakWith(src, predicate)

\* the prefix operator called in place of partition
Iterable_partition_asSpanWith(src, predicate) == spanWith(src, predicate)
\* static partition(it, predicate) { return partition(it, predicate); }
Iterable_partition(src, predicate) == partition(src, predicate)

\* split: the element at position i belongs to branch A
InPrefix(i, k) == i < k

\* the branch the upstream element v at position i is classified to
Classify(s, i, v, flip) ==
  CASE s.op = "split" -> IF InPrefix(i, s.arg) THEN "A" ELSE "B"
    [] s.op = "spanWith" -> IF ~flip /\ Holds(s.arg, v) THEN "A" ELSE "B"
    [] s.op = "breakWith" -> IF ~flip /\ ~Holds(s.arg, v) THEN "A" ELSE "B"
    [] s.op = "partition" -> IF Holds(s.arg, v) THEN "A" ELSE "B"

\* spanWith/breakWith: classification to A stops at the first element given to B
Flip(s, side, flip) ==
  flip \/ (s.op \in {"spanWith", "breakWith"} /\ side = "B")

\* the upstream may still produce elements for branch A
AOpen(s, b) ==
  CASE s.op = "split" -> InPrefix(b.upPos, s.arg)
    [] s.op \in {"spanWith", "breakWith"} -> ~b.flipped
    [] s.op = "partition" -> TRUE

\* an element of the other branch goes to that branch's buffer
Deposit(buf, v) == Append(buf, v)

\* Branch X drives the shared upstream until it produces an element of X or
\* is exhausted.  b = [buf, upPos, flipped, out, done, got, pulled].
RECURSIVE Drive(_, _, _)
Drive(s, X, b) ==
  IF X = "A" /\ ~AOpen(s, b)
  THEN [b EXCEPT !.done = TRUE]
  ELSE LET r == UpstreamNext(s.up, b.upPos) IN
       IF r = <<>>
       THEN [b EXCEPT !.done = TRUE, !.pulled = @ + 1]
       ELSE LET side == Classify(s, b.upPos, r[1], b.flipped)
                b1 == [b EXCEPT !.upPos = @ + 1,
                                !.flipped = Flip(s, side, @),
                                !.got = Append(@, r[1]),
                                !.pulled = @ + 1]
            IN IF side = X
               THEN [b1 EXCEPT !.out = r]
               ELSE Drive(s, X, [b1 EXCEPT !.buf[side] = Deposit(@, r[1])])

\* One next() call on branch X: replay its buffer first, then drive the upstream.
branchNext(s, X, b) ==
  IF b.buf[X] # <<>>
  THEN [b EXCEPT !.out = <<Head(b.buf[X])>>, !.buf[X] = Tail(@)]
  ELSE Drive(s, X, b)

InitSplit ==
  /\ sys = "split"
  /\ it \in Sources
  /\ \/ /\ call = "split"
        /\ arg \in Cutoffs
        /\ seq = Iterable_split(it, arg)
     \/ /\ call = "spanWith"
        /\ arg \in Preds
        /\ seq = Iterable_spanWith(it, arg)
     \/ /\ call = "breakWith"
        /\ arg \in Preds
        /\ seq = Iterable_breakWith(it, arg)
     \/ /\ call = "partition"
        /\ arg \in Preds
        /\ seq = Iterable_partition(it, arg)
  /\ upPos = 0
  /\ produced = <<>>
  /\ pulls = 0
  /\ CacheIdle
  /\ flipped = FALSE
  /\ bbuf = [X \in Branches |-> <<>>]
  /\ bst = [X \in Branches |-> "run"]
  /\ bout = [X \in Branches |-> <<>>]
  /\ ZipIdle
  /\ EagerIdle
  /\ LazyIdle
  /\ WrapIdle

\* one next() call of the traversal of branch X
BranchStep(X) ==
  /\ sys = "split"
  /\ bst[X] = "run"
  /\ LET b == [buf |-> bbuf, upPos |-> upPos, flipped |-> flipped,
               out |-> <<>>, done |-> FALSE, got |-> <<>>, pulled |-> 0]
         r == branchNext(seq, X, b)
     IN /\ bbuf' = r.buf
        /\ upPos' = r.upPos
        /\ flipped' = r.flipped
        /\ produced' = produced \o r.got
        /\ pulls' = pulls + r.pulled
        /\ bout' = [bout EXCEPT ![X] = @ \o r.out]
        /\ bst' = [bst EXCEPT ![X] = IF r.done THEN "done" ELSE "run"]
  /\ UNCHANGED <<lazyVars, sys, call, it, arg, seq, pullsAt, buffer, terminal, tst, tpos,
                 tout, overlap, zipVars, eagerVars, wrapVars>>

NextSplit == \E X \in Branches : BranchStep(X)

SpecSplit == InitSplit /\ [][NextSplit]_vars

\* ================================================================= zip
\* combiners the caller may pass; "none" stands for an omitted combiner
Fns == {"none", "add", "sub"}
Apply(fn, vals) == IF fn = "add" THEN vals[1] + vals[2] ELSE vals[1] - vals[2]

\* the inputs of zip are arrays
ZipSources == {ArraySource(s) : s \in SeqsUpTo(MaxLen)}

zip(its, fn) == [op |-> "zip", ups |-> its, fn |-> fn]

\* the combiner not passed on
Iterable_zip_noCombiner(its, fn) == zip(its, "none")
\* static zip(its, fn) { return zip(its, fn); }
Iterable_zip(its, fn) == zip(its, fn)

\* the receiver placed after the other inputs
Iterable_zip_method_receiverLast(this, its, fn) == zip(its \o <<this.up>>, fn)
\* zip(its, fn) { return zip([this.it, ...its], fn); }
Iterable_zip_method(this, its, fn) == zip(<<this.up>> \o its, fn)

\* Pull inputs i, i+1, ... in order, stopping at the first that signals
\* completion.
RECURSIVE PullAll(_, _, _, _)
PullAll(ups, pos, i, vals) ==
  IF i > Len(ups)
  THEN [pos |-> pos, vals |-> vals, ok |-> TRUE]
  ELSE LET r == UpstreamNext(ups[i], pos[i]) IN
       IF r = <<>>
       THEN [pos |-> pos, vals |-> vals, ok |-> FALSE]
       ELSE PullAll(ups, [pos EXCEPT ![i] = @ + 1], i + 1, Append(vals, r[1]))

\* the item yielded for one step's values: the raw tuple (an array) or the
\* combiner's result
Combine(fn, vals) ==
  IF fn = "none" THEN [tuple |-> vals] ELSE [value |-> Apply(fn, vals)]

\* One next() call on the zipped Sequence.
zipNext(s, pos) ==
  LET r == PullAll(s.ups, pos, 1, <<>>)
  IN [pos |-> r.pos,
      out |-> IF r.ok THEN <<Combine(s.fn, r.vals)>> ELSE <<>>,
      done |-> ~r.ok]

InitZip ==
  /\ sys = "zip"
  /\ \E a \in ZipSources, b \in ZipSources, f \in Fns :
       \/ /\ call = "zip"
          /\ it = <<a, b>>
          /\ arg = f
          /\ seq = Iterable_zip(it, arg)
       \/ /\ call = "zip_method"
          /\ it = a
          /\ arg = [its |-> <<b>>, fn |-> f]
          /\ seq = Iterable_zip_method(Iterable_new(it), arg.its, arg.fn)
  /\ upPos = 0
  /\ produced = <<>>
  /\ pulls = 0
  /\ CacheIdle
  /\ SplitIdle
  /\ EagerIdle
  /\ LazyIdle
  /\ WrapIdle
  /\ zpos = [i \in 1..2 |-> 0]
  /\ zst = "run"
  /\ zout = <<>>

\* one next() call of the traversal of the zipped Sequence
ZipStep ==
  /\ sys = "zip"
  /\ zst = "run"
  /\ LET r == zipNext(seq, zpos)
     IN /\ zpos' = r.pos
        /\ zout' = zout \o r.out
        /\ zst' = IF r.done THEN "done" ELSE "run"
  /\ UNCHANGED <<lazyVars, sys, call, it, arg, seq, cacheVars, splitVars, eagerVars,
                 wrapVars>>

NextZip == ZipStep

SpecZip == InitZip /\ [][NextZip]_vars

\* ================================================= eager operators
\* equal, sort, sorted, reduce and scan (src/internal/<name>.js) are not
\* among the source files: their bodies are modelled from section 4.6 and
\* 4.7 of the specification and from the tests; the class methods that call
\* them are modelled from the source.  The class has no member scanRight.

\* a boolean item
Bool(b) == [bool |-> b]

\* the bases of test/internal/reduce.js and test/internal/scanRight.js
TestBases == {<<1, 2, 3>>, <<3, 2, 1>>}

\* the arrays given to the eager operators
EagerSources == {ArraySource(s) : s \in SeqsUpTo(MaxLen) \cup TestBases}

\* sort is given objects {k, v}: v tells apart the elements of equal key
KeyedItems(s) == [i \in 1..Len(s) |-> [k |-> s[i], v |-> i]]
SortSources == {ArraySource(KeyedItems(s)) : s \in SeqsUpTo(MaxLen)}

\* three-way comparators the caller may pass; "none" is an omitted one
Comparators == {"none", "asc", "desc"}
\* "none": the default comparator, the natural order of the elements
Compare(c, x, y) == IF c = "desc" THEN y - x ELSE x - y
\* the comparators given to sort compare the keys: (x, y) => x.k - y.k
CompareKeys(c, x, y) == Compare(c, x.k, y.k)

\* reducers the caller may pass: (acc, i) => acc + i and (acc, i) => acc - i
Reducers == {"add", "sub"}
Reduce2(r, acc, i) == IF r = "add" THEN acc + i ELSE acc - i

\* [ITERATOR]() { return this.it[ITERATOR](); }: an operator handed an
\* Iterable reads the source the Iterable wraps.
SourceOf(x) == IF "op" \in DOMAIN x THEN x.up ELSE x

equal(src, other) == [op |-> "equal", up |-> src, arg |-> other]
sort(src, comparator) == [op |-> "sort", up |-> src, arg |-> comparator]
sorted(src, comparator) == [op |-> "sorted", up |-> src, arg |-> comparator]
reduce(src, reducer) == [op |-> "reduce", up |-> src, arg |-> reducer]
scan(src, reducer) == [op |-> "scan", up |-> src, arg |-> reducer]
\* empty takes no argument and ignores any it is given
empty(args) == [op |-> "empty", up |-> "none", arg |-> "none"]

\* the source compared with itself
Iterable_equal_sameSource(src, other) == equal(src, src)
\* static equal(it, other) { return equal(it, other); }
Iterable_equal(src, other) == equal(src, other)
\* equal(other) { return equal(this.it, other); }
Iterable_equal_method(this, other) == equal(this.up, other)

\* the comparator not passed on
Iterable_sort_noComparator(src, comparator) == sort(src, "none")
\* static sort(it, comparator) { return sort(it, comparator); }
Iterable_sort(src, comparator) == sort(src, comparator)
\* sort(comparator) { return sort(this.it, comparator); }
Iterable_sort_method(this, comparator) == sort(this.up, comparator)

\* the comparator not passed on
Iterable_sorted_noComparator(src, comparator) == sorted(src, "none")
\* static sorted(it, comparator) { return sorted(it, comparator); }
Iterable_sorted(src, comparator) == sorted(src, comparator)
\* sorted(comparator) { return sorted(this.it, comparator); }
Iterable_sorted_method(this, comparator) == sorted(this.up, comparator)

\* the neighbouring operator called in place of reduce
Iterable_reduce_asScan(src, reducer) == scan(src, reducer)
\* static reduce(it, reducer) { return reduce(it, reducer); }
Iterable_reduce(src, reducer) == reduce(src, reducer)
\* reduce(reducer) { return reduce(this.it, reducer); }
Iterable_reduce_method(this, reducer) == reduce(this.up, reducer)

\* static scan(it, reducer) { return scan(it, reducer); }
Iterable_scan(src, reducer) == scan(src, reducer)
\* scan(reducer) { return scan(this.it, reducer); }
Iterable_scan_method(this, reducer) == scan(this.up, reducer)

\* static empty() { return empty(); }
Iterable_empty == empty(<<>>)
\* empty() { return empty(this); }
Iterable_empty_method(this) == empty(<<this>>)

\* equal: both sources advanced in lockstep from position i
RECURSIVE equalFrom(_, _, _)
equalFrom(a, b, i) ==
  LET x == UpstreamNext(a, i)
      y == UpstreamNext(b, i)
  IN IF x = <<>> /\ y = <<>> THEN [ok |-> TRUE, pulled |-> i]
     ELSE IF x = <<>> \/ y = <<>> THEN [ok |-> FALSE, pulled |-> i]
     ELSE IF x[1] # y[1] THEN [ok |-> FALSE, pulled |-> i + 1]
     ELSE equalFrom(a, b, i + 1)

\* sort: x placed after every element that does not compare greater
RECURSIVE InsertSorted(_, _, _)
InsertSorted(done, x, c) ==
  IF done = <<>> THEN <<x>>
  ELSE IF CompareKeys(c, Head(done), x) <= 0
       THEN <<Head(done)>> \o InsertSorted(Tail(done), x, c)
       ELSE <<x>> \o done

\* sort: the whole source materialized, then ordered
RECURSIVE sortItems(_, _)
sortItems(s, c) ==
  IF s = <<>> THEN <<>>
  ELSE InsertSorted(sortItems(SubSeq(s, 1, Len(s) - 1), c), s[Len(s)], c)

\* sorted: i elements pulled so far; stops at the first inversion
RECURSIVE sortedFrom(_, _, _)
sortedFrom(s, c, i) ==
  IF i >= Len(s) THEN [ok |-> TRUE, pulled |-> Len(s)]
  ELSE IF i >= 1 /\ Compare(c, s[i], s[i + 1]) > 0
       THEN [ok |-> FALSE, pulled |-> i + 1]
       ELSE sortedFrom(s, c, i + 1)

\* scan: the first element, then every later accumulator (s is not empty)
RECURSIVE scanItems(_, _)
scanItems(s, r) ==
  IF Len(s) <= 1 THEN s
  ELSE LET front == scanItems(SubSeq(s, 1, Len(s) - 1), r)
       IN Append(front, Reduce2(r, front[Len(front)], s[Len(s)]))

\* every item of one complete traversal of the zipped Sequence
RECURSIVE zipAll(_, _)
zipAll(s, pos) ==
  LET r == zipNext(s, pos)
  IN IF r.done THEN <<>> ELSE r.out \o zipAll(s, r.pos)

\* One complete traversal of the Sequence an eager operator returned: the
\* items it yields and the source elements it pulled.
Eval(s) ==
  CASE s.op = "equal" ->
         LET r == equalFrom(SourceOf(s.up), SourceOf(s.arg), 0)
         IN [items |-> <<Bool(r.ok)>>, pulled |-> r.pulled]
    [] s.op = "sort" ->
         LET src == SourceOf(s.up).items
         IN [items |-> sortItems(src, s.arg), pulled |-> Len(src)]
    [] s.op = "sorted" ->
         LET r == sortedFrom(SourceOf(s.up).items, s.arg, 0)
         IN [items |-> <<Bool(r.ok)>>, pulled |-> r.pulled]
    [] s.op = "reduce" ->
         LET src == SourceOf(s.up).items
             all == scanItems(src, s.arg)
         IN [items |-> <<all[Len(all)]>>, pulled |-> Len(src)]
    [] s.op = "scan" ->
         LET src == SourceOf(s.up).items
         IN [items |-> scanItems(src, s.arg), pulled |-> Len(src)]
    [] s.op = "empty" -> [items |-> <<>>, pulled |-> 0]
    [] s.op = "zip" ->
         LET ups == [i \in 1..Len(s.ups) |-> SourceOf(s.ups[i])]
             out == zipAll([s EXCEPT !.ups = ups], [i \in 1..Len(ups) |-> 0])
         IN [items |-> out, pulled |-> Len(out)]

\* the operators that class Iterable has as a static and as a prototype
\* member, among those called here; it has no member scanRight
ClassMembers == {"equal", "sort", "sorted", "reduce", "scan", "empty", "zip"}

\* Iterable.c(src, a): the Sequence the class returns.  A name the class
\* lacks reads as undefined, and calling undefined throws a TypeError.
StaticCall(c, src, a) ==
  IF c \notin ClassMembers THEN Throw("TypeError")
  ELSE CASE c = "equal" -> Iterable_equal(src, a)
         [] c = "sort" -> Iterable_sort(src, a)
         [] c = "sorted" -> Iterable_sorted(src, a)
         [] c = "reduce" -> Iterable_reduce(src, a)
         [] c = "scan" -> Iterable_scan(src, a)
         [] c = "empty" -> Iterable_empty
         [] c = "zip" -> Iterable_zip(<<src>> \o a.its, a.fn)

\* this.c(a): a name the wrapper lacks goes to the get trap of the Proxy,
\* which returns undefined for it; calling undefined throws a TypeError.
MethodCall(c, this, a) ==
  IF c \notin ClassMembers THEN Throw("TypeError")
  ELSE CASE c = "equal" -> Iterable_equal_method(this, a)
         [] c = "sort" -> Iterable_sort_method(this, a)
         [] c = "sorted" -> Iterable_sorted_method(this, a)
         [] c = "reduce" -> Iterable_reduce_method(this, a)
         [] c = "scan" -> Iterable_scan_method(this, a)
         [] c = "empty" -> Iterable_empty_method(this)
         [] c = "zip" -> Iterable_zip_method(this, a.its, a.fn)

\* One next() call on the iterator of the Sequence s, k of its items having
\* been given: the item given or the end, and the source elements pulled so
\* far.  sort, reduce, equal and sorted read the source in their first step;
\* scan and zip read one element per item.
EvalNext(s, k) ==
  LET all == Eval(s)
      perItem == s.op \in {"scan", "zip"}
  IN IF k < Len(all.items)
     THEN [out |-> <<all.items[k + 1]>>, done |-> FALSE,
           pulled |-> IF perItem THEN k + 1 ELSE all.pulled]
     ELSE [out |-> <<>>, done |-> TRUE, pulled |-> all.pulled]

InitEager ==
  /\ sys = "eager"
  /\ \/ /\ call = "equal"
        /\ it \in EagerSources
        /\ arg \in EagerSources
        /\ shape \in {"static", "method"}
     \/ /\ call = "sort"
        /\ it \in SortSources
        /\ arg \in {"asc", "desc"}
        /\ shape \in {"static", "method"}
     \/ /\ call = "sorted"
        /\ it \in EagerSources
        /\ arg \in Comparators
        /\ shape \in {"static", "method"}
     \/ /\ call \in {"reduce", "scan"}
        /\ it \in {x \in EagerSources : x.items # <<>>}
        /\ arg \in Reducers
        /\ shape \in {"static", "method"}
     \/ /\ call = "scanRight"
        /\ it \in {x \in EagerSources : x.items # <<>>}
        /\ arg \in Reducers
        /\ shape \in {"static", "method"}
     \/ /\ call = "empty"
        /\ it \in EagerSources
        /\ arg = "none"
        /\ shape \in {"static", "method"}
     \/ /\ call = "zip"
        /\ it \in ZipSources
        /\ \E b \in ZipSources, f \in Fns : arg = [its |-> <<b>>, fn |-> f]
        /\ shape \in {"static", "method"}
  /\ seq = IF shape = "static" THEN StaticCall(call, it, arg)
           ELSE MethodCall(call, Iterable_new(it), arg)
  /\ est = "built"
  /\ res = <<>>
  /\ upPos = 0
  /\ produced = <<>>
  /\ pulls = 0
  /\ CacheIdle
  /\ SplitIdle
  /\ ZipIdle
  /\ WrapIdle
  /\ LazyIdle

\* seq[ITERATOR](): the iterator of the returned Sequence is obtained; no
\* source is read
EagerBegin ==
  /\ sys = "eager"
  /\ est = "built"
  /\ seq.op # "throw"
  /\ est' = "run"
  /\ UNCHANGED <<lazyVars, sys, call, it, arg, seq, shape, res, upPos, produced, pulls,
                 pullsAt, buffer, terminal, tst, tpos, tout, overlap, splitVars,
                 zipVars, wrapVars>>

\* one next() call on that iterator; the caller's loop body runs between two
\* of them
EagerStep ==
  /\ sys = "eager"
  /\ est = "run"
  /\ LET r == EvalNext(seq, Len(res))
     IN /\ res' = res \o r.out
        /\ pulls' = r.pulled
        /\ est' = IF r.done THEN "done" ELSE "run"
  /\ UNCHANGED <<lazyVars, sys, call, it, arg, seq, shape, upPos, produced, pullsAt, buffer,
                 terminal, tst, tpos, tout, overlap, splitVars, zipVars, wrapVars>>

NextEager == EagerBegin \/ EagerStep

SpecEager == InitEager /\ [][NextEager]_vars

\* ------------------------------------------------ claims on eager operators
RECURSIVE Sum(_)
Sum(s) == IF s = <<>> THEN 0 ELSE Head(s) + Sum(Tail(s))

\* r(...r(r(s0, s1), s2)..., s(n-1)) in closed form
RefFoldLeft(r, s) == IF r = "add" THEN Sum(s) ELSE s[1] - Sum(Tail(s))

\* the last k elements of s accumulated from the right, in closed form
RefAccRight(r, s, k) ==
  LET n == Len(s)
  IN IF r = "add" THEN Sum(SubSeq(s, n - k + 1, n))
     ELSE s[n] - Sum(SubSeq(s, n - k + 1, n - 1))

\* the first index (from 0) at which a and b differ or one of them has ended
RefFirstDifference(a, b) ==
  CHOOSE d \in 0..Len(a) :
    /\ d <= Len(b)
    /\ \A j \in 1..d : a[j] = b[j]
    /\ d = Len(a) \/ d = Len(b) \/ a[d + 1] # b[d + 1]

\* the (1-based) positions i at which s[i], s[i+1] is an inverted pair under c
RefInversions(s, c) == {i \in 1..(Len(s) - 1) : Compare(c, s[i], s[i + 1]) > 0}

EagerDone(c) == sys = "eager" /\ call = c /\ est = "done"

\* C11: equal(a, b) yields true exactly when a and b have the same length and
\* equal values at every index; otherwise it yields false, having stopped at
\* the first index where the values differ or where one source has ended.
C11_Equal ==
  EagerDone("equal") =>
    LET a == it.items
        b == arg.items
        d == RefFirstDifference(a, b)
    IN /\ res = <<Bool(a = b)>>
       /\ res[1].bool <=> (d = Len(a) /\ d = Len(b))
       /\ pulls = IF d < Len(a) /\ d < Len(b) THEN d + 1 ELSE d

C11_Witness ==
  /\ EagerDone("equal")
  /\ Len(it.items) = 3
  /\ arg.items = SubSeq(it.items, 1, 2)
  /\ res = <<Bool(FALSE)>>

\* C12: sort(S, c) yields a permutation of S that is non-decreasing under c,
\* and elements that compare equal under c keep their original relative order.
C12_StableSort ==
  EagerDone("sort") =>
    /\ Len(res) = Len(it.items)
    /\ {res[i] : i \in 1..Len(res)} = {it.items[i] : i \in 1..Len(it.items)}
    /\ \A i, j \in 1..Len(res) :
         i < j => /\ CompareKeys(arg, res[i], res[j]) <= 0
                  /\ CompareKeys(arg, res[i], res[j]) = 0 => res[i].v < res[j].v

C12_Witness ==
  /\ EagerDone("sort")
  /\ arg = "desc"
  /\ Len(res) = 3
  /\ res # it.items
  /\ \E i, j \in 1..3 : i < j /\ res[i].k = res[j].k

\* C13: sorted(S, c) yields true exactly when every adjacent pair of S is
\* non-decreasing under c, and no source element after the second element of
\* the first inverted pair is pulled.
C13_Sorted ==
  EagerDone("sorted") =>
    LET inv == RefInversions(it.items, arg)
    IN /\ res = <<Bool(inv = {})>>
       /\ \A i \in inv : pulls <= i + 1

C13_Witness ==
  /\ EagerDone("sorted")
  /\ Len(it.items) = 3
  /\ arg = "none"
  /\ it.items[1] > it.items[2]
  /\ res = <<Bool(FALSE)>>
  /\ pulls = 2

\* C14: traversing reduce(S, r) over a non-empty S yields exactly one item,
\* the left fold of S by r seeded with the first element; for a single
\* element the item is that element.
C14_Reduce ==
  EagerDone("reduce") =>
    /\ Len(res) = 1
    /\ res[1] = RefFoldLeft(arg, it.items)
    /\ Len(it.items) = 1 => res[1] = it.items[1]

C14_Witness ==
  /\ EagerDone("reduce")
  /\ arg = "sub"
  /\ it.items = <<1, 2, 3>>
  /\ res = <<0 - 4>>

\* C15: scanRight(S, r) yields exactly one value per source element, the k-th
\* being the accumulation of the last k elements of S taken from right to
\* left; for [3,2,1] with addition the values are 1, 3, 6.
C15_ScanRight ==
  (sys = "eager" /\ call = "scanRight") =>
    /\ seq.op # "throw"
    /\ est = "done" =>
         /\ Len(res) = Len(it.items)
         /\ \A k \in 1..Len(res) : res[k] = RefAccRight(arg, it.items, k)
         /\ (it.items = <<3, 2, 1>> /\ arg = "add") => res = <<1, 3, 6>>

\* C20: for every operator that has both call shapes, the method form
\* seq.op(args) yields what the free-function form Iterable.op(seq, args)
\* yields for the same arguments; seq.zip(its, fn) is
\* Iterable.zip([seq, ...its], fn) and seq.empty() is Iterable.empty().
C20_MethodIsStatic ==
  (sys = "eager" /\ shape = "method" /\ est = "done") =>
    res = Eval(StaticCall(call, Iterable_new(it), arg)).items

C20_Witness ==
  /\ sys = "eager"
  /\ shape = "method"
  /\ est = "done"
  /\ call = "zip"
  /\ arg.fn = "sub"
  /\ Len(res) = 2
  /\ res[1] # res[2]

\* ===================================================== wrapper traversals
\* what may be handed to new Iterable(...)
WrapSources ==
  Sources \cup {GeneratorFunction(s) : s \in SeqsUpTo(MaxLen)} \cup InvalidValues

InitWrap ==
  /\ sys = "wrap"
  /\ it \in WrapSources
  /\ call = "new"
  /\ arg = "none"
  /\ seq = Iterable_new(it)
  /\ upPos = 0
  /\ produced = <<>>
  /\ pulls = 0
  /\ pullsAt = <<>>
  /\ buffer = <<>>
  /\ terminal = FALSE
  /\ tst = [t \in Travs |-> "idle"]
  /\ tpos = [t \in Travs |-> 0]
  /\ tout = [t \in Travs |-> <<>>]
  /\ overlap = FALSE
  /\ SplitIdle
  /\ ZipIdle
  /\ EagerIdle
  /\ LazyIdle
  /\ WrapIdle

\* for (const x of seq): [ITERATOR]() is called on the constructed Sequence
WrapBegin(t) ==
  /\ sys \in {"wrap", "get"}
  /\ seq.op = "plain"
  /\ tst[t] = "idle"
  /\ tst' = [tst EXCEPT ![t] = "run"]
  /\ overlap' = (overlap \/ \E u \in Travs : tst[u] = "run")
  /\ UNCHANGED <<lazyVars, sys, call, it, arg, seq, upPos, produced, pulls, pullsAt,
                 buffer, terminal, tpos, tout, splitVars, zipVars, eagerVars,
                 wrapVars>>

\* one next() call of traversal t on the iterator this.it[ITERATOR]() gave
WrapStep(t) ==
  /\ sys \in {"wrap", "get"}
  /\ tst[t] = "run"
  /\ LET c == [buffer |-> buffer, terminal |-> terminal, upPos |-> upPos]
         r == plainNext(c, tpos[t], seq.up)
     IN /\ upPos' = r.upPos
        /\ produced' = produced \o r.got
        /\ pulls' = pulls + r.pulled
        /\ tout' = [tout EXCEPT ![t] = @ \o r.out]
        /\ tpos' = [tpos EXCEPT ![t] = @ + Len(r.out)]
        /\ tst' = [tst EXCEPT ![t] = IF r.done THEN "done" ELSE "run"]
  /\ UNCHANGED <<lazyVars, sys, call, it, arg, seq, pullsAt, buffer, terminal, overlap,
                 splitVars, zipVars, eagerVars, wrapVars>>

NextWrap == \E t \in Travs : WrapBegin(t) \/ WrapStep(t)

SpecWrap == InitWrap /\ [][NextWrap]_vars

\* ============================================== get and index-style access
NumAccess == 2     \* accesses made on one Sequence

\* the indexes asked for
Indices == 0..(MaxLen + 2)

\* a number, and the property key (a string) the same number turns into
Num(i) == [num |-> i]
Str(i) == [str |-> i]

\* members of the wrapper reached by normal lookup, and a name it lacks
Members == {"get", "it"}
Keys == {Str(i) : i \in Indices} \cup {[name |-> m] : m \in Members \cup {"size"}}

\* index in target
InTarget(key) == "name" \in DOMAIN key /\ key.name \in Members

\* isNumber of internal/utils: typeof key === 'number'; a property key, a
\* string, is none
isNumber(key) == "num" \in DOMAIN key

\* s === index, s being the numeric counter of get
StrictEquals(s, index) == index = Num(s)

\* the not-found result
Undefined == <<>>

\* the loop of get: the iterator is at cursor p, s elements counted so far
RECURSIVE getFrom(_, _, _, _, _)
getFrom(src, p, s, index, n) ==
  LET r == UpstreamNext(src, p)
  IN IF r = <<>>
     THEN [value |-> Undefined, pos |-> p, returned |-> FALSE, pulled |-> n + 1]
     ELSE IF StrictEquals(s, index)
          THEN [value |-> r, pos |-> p + 1, returned |-> TRUE, pulled |-> n + 1]
          ELSE getFrom(src, p + 1, s + 1, index, n + 1)

\* the elements counted from one instead of zero
Iterable_get_countFromOne(this, c, index) ==
  LET src == this.up
      r == getFrom(src, IF FreshIterator(src) THEN 0 ELSE c.upPos, 1, index, 0)
  IN [value |-> r.value, pulled |-> r.pulled, this |-> this,
      upPos |-> IF FreshIterator(src) THEN c.upPos
                ELSE IF r.returned THEN Len(src.items) ELSE r.pos,
      closed |-> c.closed \/ (~FreshIterator(src) /\ r.returned)]
\* the iterator obtained kept in place of the wrapped reference
Iterable_get_keepsIterator(this, c, index) ==
  LET src == this.up
      r == getFrom(src, IF FreshIterator(src) THEN 0 ELSE c.upPos, 0, index, 0)
  IN [value |-> r.value, pulled |-> r.pulled,
      this |-> [this EXCEPT !.up = GeneratorObject(src.items)],
      upPos |-> IF r.returned THEN Len(src.items) ELSE r.pos,
      closed |-> c.closed \/ r.returned]
\* the loop left without closing the iterator
Iterable_get_noClose(this, c, index) ==
  LET src == this.up
      r == getFrom(src, IF FreshIterator(src) THEN 0 ELSE c.upPos, 0, index, 0)
  IN [value |-> r.value, pulled |-> r.pulled, this |-> this,
      upPos |-> IF FreshIterator(src) THEN c.upPos ELSE r.pos,
      closed |-> c.closed]
\* get(index): for (const i of it) { if (s === index) return i; s += 1; }
\* return undefined.  Leaving the loop by return closes the iterator: a
\* generator object is finished by it, an array iterator is dropped.
Iterable_get(this, c, index) ==
  LET src == this.up
      r == getFrom(src, IF FreshIterator(src) THEN 0 ELSE c.upPos, 0, index, 0)
  IN [value |-> r.value, pulled |-> r.pulled, this |-> this,
      upPos |-> IF FreshIterator(src) THEN c.upPos
                ELSE IF r.returned THEN Len(src.items) ELSE r.pos,
      closed |-> c.closed \/ (~FreshIterator(src) /\ r.returned)]

\* the get trap of the Proxy the constructor returns
ProxyGet(this, c, key) ==
  IF InTarget(key)
  THEN [value |-> <<[member |-> key.name]>>, pulled |-> 0, this |-> this,
        upPos |-> c.upPos, closed |-> c.closed]
  ELSE IF isNumber(key) THEN Iterable_get(this, c, key)
  ELSE [value |-> Undefined, pulled |-> 0, this |-> this, upPos |-> c.upPos,
        closed |-> c.closed]

\* toArray() { return toArray(this.it); }: the call traverses this.it to its
\* end and returns a new array of every element its iterator still had
Iterable_toArray_method(this, c) ==
  LET src == this.up
      from == IF FreshIterator(src) THEN 0 ELSE c.upPos
  IN [value |-> <<ArraySource(SubSeq(src.items, from + 1, Len(src.items)))>>,
      pulled |-> Len(src.items) - from + 1, this |-> this,
      upPos |-> IF FreshIterator(src) THEN c.upPos ELSE Len(src.items),
      closed |-> c.closed]

\* the operators called on the Sequence as methods, with their argument
MethodCalls == {<<"scan", "add">>, <<"sorted", "none">>, <<"empty", "none">>}

InitGet ==
  /\ sys = "get"
  /\ it \in WrapSources
  /\ call = "new"
  /\ arg = "none"
  /\ seq = Iterable_new(it)
  /\ upPos = 0
  /\ produced = <<>>
  /\ pulls = 0
  /\ closed = FALSE
  /\ glast = [op |-> "none", n |-> 0]
  /\ pullsAt = <<>>
  /\ buffer = <<>>
  /\ terminal = FALSE
  /\ tst = [t \in Travs |-> "idle"]
  /\ tpos = [t \in Travs |-> 0]
  /\ tout = [t \in Travs |-> <<>>]
  /\ overlap = FALSE
  /\ SplitIdle
  /\ ZipIdle
  /\ EagerIdle
  /\ LazyIdle

\* seq.get(i)
Get(i) ==
  /\ sys = "get"
  /\ seq.op = "plain"
  /\ glast.n < NumAccess
  /\ LET r == Iterable_get(seq, [upPos |-> upPos, closed |-> closed], Num(i))
     IN /\ glast' = [op |-> "get", index |-> Num(i), value |-> r.value,
                     pulled |-> r.pulled, n |-> glast.n + 1]
        /\ upPos' = r.upPos
        /\ closed' = r.closed
        /\ seq' = r.this
  /\ UNCHANGED <<lazyVars, sys, call, it, arg, produced, pulls, pullsAt, buffer, terminal,
                 tst, tpos, tout, overlap, splitVars, zipVars, eagerVars>>

\* seq[key]: the property key reaches the get trap as a string
IndexAccess(key) ==
  /\ sys = "get"
  /\ seq.op = "plain"
  /\ glast.n < NumAccess
  /\ LET r == ProxyGet(seq, [upPos |-> upPos, closed |-> closed], key)
     IN /\ glast' = [op |-> IF "str" \in DOMAIN key THEN "index" ELSE "field",
                     index |-> key, value |-> r.value,
                     pulled |-> r.pulled, n |-> glast.n + 1]
        /\ upPos' = r.upPos
        /\ closed' = r.closed
        /\ seq' = r.this
  /\ UNCHANGED <<lazyVars, sys, call, it, arg, produced, pulls, pullsAt, buffer, terminal,
                 tst, tpos, tout, overlap, splitVars, zipVars, eagerVars>>

\* seq.toArray()
ToArray ==
  /\ sys = "get"
  /\ seq.op = "plain"
  /\ glast.n < NumAccess
  /\ LET r == Iterable_toArray_method(seq, [upPos |-> upPos, closed |-> closed])
     IN /\ glast' = [op |-> "toArray", index |-> [name |-> "toArray"], value |-> r.value,
                     pulled |-> r.pulled, n |-> glast.n + 1]
        /\ upPos' = r.upPos
        /\ closed' = r.closed
        /\ seq' = r.this
  /\ UNCHANGED <<lazyVars, sys, call, it, arg, produced, pulls, pullsAt, buffer, terminal,
                 tst, tpos, tout, overlap, splitVars, zipVars, eagerVars>>

\* seq.op(args): the method hands this.it to the operator, which returns a
\* Sequence of its own
OperatorCall(m) ==
  /\ sys = "get"
  /\ seq.op = "plain"
  /\ glast.n < NumAccess
  /\ glast' = [op |-> "call", index |-> [name |-> m[1]],
               value |-> <<MethodCall(m[1], seq, m[2])>>,
               pulled |-> 0, n |-> glast.n + 1]
  /\ UNCHANGED <<lazyVars, sys, call, it, arg, seq, upPos, closed, produced, pulls, pullsAt,
                 buffer, terminal, tst, tpos, tout, overlap, splitVars, zipVars,
                 eagerVars>>

\* the accesses are made before, between the next() calls of, and after one
\* traversal of the Sequence
NextGet ==
  \/ \E i \in Indices : Get(i)
  \/ \E key \in Keys : IndexAccess(key)
  \/ ToArray
  \/ \E m \in MethodCalls : OperatorCall(m)
  \/ WrapBegin(1) \/ WrapStep(1)

SpecGet == InitGet /\ [][NextGet]_vars

\* ---------------------------------------------------- claims on the wrapper
\* e_i for 0 <= i < n, the not-found result otherwise
RefGet(items, i) == IF i < Len(items) THEN <<items[i + 1]>> ELSE Undefined

\* s is the beginning of t
StartsWith(t, s) == Len(s) <= Len(t) /\ SubSeq(t, 1, Len(s)) = s

\* every element of the underlying state goes to one traversal only: what the
\* traversals pulled, in the order they pulled it, is the source read once, and
\* a traversal begun after another one completed yields nothing
SinglePass ==
  /\ StartsWith(it.items, produced)
  /\ \A t, u \in Travs :
       (~overlap /\ tst[t] = "done" /\ tst[u] = "run") => tout[u] = <<>>

\* C16: over a multi-pass source e0..e(n-1), get(i) returns e_i for every
\* 0 <= i < n and undefined for every i >= n, on the first call and on every
\* repeated call.
C16_Get ==
  (sys = "get" /\ glast.op = "get" /\ it.kind = "multi") =>
    /\ glast.value = RefGet(it.items, glast.index.num)
    /\ upPos = 0

C16_Witness ==
  /\ sys = "get"
  /\ glast.op = "get"
  /\ glast.n = 2
  /\ it.kind = "multi"
  /\ Len(it.items) = 3
  /\ glast.index = Num(1)
  /\ glast.value = <<it.items[2]>>

\* C17: seq[i] returns what seq.get(i) returns for every non-negative integer
\* i, and a field name that is a member of the wrapper returns that member
\* without starting a traversal.
C17_IndexIsGet ==
  [][(sys = "get" /\ glast'.n = glast.n + 1) =>
       /\ glast'.op = "index" =>
            glast'.value = Iterable_get(seq, [upPos |-> upPos, closed |-> closed],
                                        Num(glast'.index.str)).value
       /\ (glast'.op = "field" /\ glast'.index.name \in Members) =>
            /\ glast'.value = <<[member |-> glast'.index.name]>>
            /\ glast'.pulled = 0
            /\ upPos' = upPos]_vars

\* C18: constructing a Sequence from a value that is neither a generator
\* procedure nor iterable fails with a Bad Argument error and no other error.
C18_BadArgumentOnly ==
  (sys = "wrap" /\ it.kind \in InvalidKinds) => seq = Throw("BadArgumentError")

\* C19 as stated: a Sequence constructed over a generator procedure is
\* single-pass: a second traversal continues where the first one stopped and
\* yields nothing after a complete first traversal.
C19_ProcedureIsSinglePass ==
  (sys = "wrap" /\ it.kind = "genfn") => SinglePass

\* C19 as amended: every traversal of a Sequence constructed over a generator
\* procedure invokes the procedure anew and starts from its first element,
\* whatever earlier traversals consumed; a Sequence constructed over a
\* generator object is single-pass.
C19_ProcedureRestarts ==
  (sys = "wrap" /\ seq.op = "plain") =>
    /\ it.kind = "genfn" =>
         \A t \in Travs : /\ tout[t] = SubSeq(it.items, 1, tpos[t])
                          /\ tst[t] = "done" => tout[t] = it.items
    /\ it.kind = "single" => SinglePass

C19_Witness ==
  /\ sys = "wrap"
  /\ it.kind = "genfn"
  /\ Len(it.items) = 3
  /\ ~overlap
  /\ tst[1] = "done"
  /\ tst[2] = "done"
  /\ tout[2] = it.items

\* ======================================================== lazy operators
\* defaultIfEmpty (src/internal/defaultIfEmpty.js) and intersect
\* (src/internal/intersect.js) are modelled from the source; the checks of
\* internal/utils, toArray, skip and compose are modelled from the
\* specification.  A traversal of the returned Sequence is a series of
\* next() calls, one step each.

\* a source the caller holds under a name: the generator objects A and B
\* are two objects even when they yield the same elements
Named(src, id) == [kind |-> src.kind, items |-> src.items, id |-> id]

\* the base of the #skip tests
SkipBase == <<1, 2, 3, 4>>

LazyA ==
  {Named(ArraySource(s), "A") : s \in SeqsUpTo(MaxLen) \cup {SkipBase}}
    \cup {Named(GeneratorObject(s), "A") : s \in SeqsUpTo(MaxLen)}
LazyB ==
  {Named(ArraySource(s), "B") : s \in SeqsUpTo(MaxLen - 2)}
    \cup {Named(GeneratorObject(s), "B") : s \in SeqsUpTo(MaxLen - 2)}

\* a value that is no Sequence: a number
NotASequence == [kind |-> "number", items |-> <<>>]

\* the value given to defaultIfEmpty; no source yields it
Defaults == {0}

\* an argument left out
Missing == [undef |-> TRUE]
\* the counts given to skip: negative, zero, up to and beyond the length
Amounts == {Num(n) : n \in (0 - 1)..(MaxLen + 1)} \cup {Missing}
\* a non-negative number
IsCount(a) == "num" \in DOMAIN a /\ a.num >= 0

\* composers given to compose: s => Iterable.skip(s, 1), s =>
\* Iterable.defaultIfEmpty(s, 0), s => 5 (no Sequence), and a value that is
\* not a function
Composers == {"skip1", "dflt", "bad", "notfn"}
ComposerLists == UNION {[1..m -> Composers] : m \in 1..2}
IsCallable(f) == f # "notfn"

\* the value is a Sequence or an iterable
IsSequence(x) == IF "op" \in DOMAIN x THEN x.op \notin {"throw", "unbuilt"} ELSE isIterable(x)

\* IterableCheck / DoubleIterableCheck of internal/utils: the check passes
IterableCheck(iterable) == IsSequence(iterable)
DoubleIterableCheck(iterable, other) == IsSequence(iterable) /\ IsSequence(other)

\* the argument accepted without a check
defaultIfEmpty_uncheckedCall(iterable, value) ==
  [op |-> "defaultIfEmpty", up |-> iterable, arg |-> value]
\* IterableCheck(iterable, 1, FIELD); return new Iterable(function* () {...})
defaultIfEmpty(iterable, value) ==
  IF ~IterableCheck(iterable) THEN Throw("BadArgumentError")
  ELSE [op |-> "defaultIfEmpty", up |-> iterable, arg |-> value]

\* DoubleIterableCheck(iterable, other, FIELD); return new Iterable(...)
intersect(iterable, other) ==
  IF ~DoubleIterableCheck(iterable, other) THEN Throw("BadArgumentError")
  ELSE [op |-> "intersect", up |-> iterable, arg |-> other]

\* skip: the source and the count are checked, then a Sequence is returned
skip(iterable, amount) ==
  IF ~IterableCheck(iterable) \/ ~IsCount(amount) THEN Throw("BadArgumentError")
  ELSE [op |-> "skip", up |-> iterable, arg |-> amount.num]

\* static defaultIfEmpty(it, value) { return defaultIfEmpty(it, value); }
Iterable_defaultIfEmpty(src, value) == defaultIfEmpty(src, value)
\* defaultIfEmpty(value) { return defaultIfEmpty(this.it, value); }
Iterable_defaultIfEmpty_method(this, value) == defaultIfEmpty(this.up, value)

\* static intersect(it, other) { return intersect(it, other); }
Iterable_intersect(src, other) == intersect(src, other)
\* intersect(other) { return intersect(this.it, other); }
Iterable_intersect_method(this, other) == intersect(this.up, other)

\* the count passed on shifted by one
Iterable_skip_offByOne(src, amount) ==
  skip(src, IF "num" \in DOMAIN amount THEN Num(amount.num + 1) ELSE amount)
\* static skip(it, amount) { return skip(it, amount); }
Iterable_skip(src, amount) == skip(src, amount)
\* skip(amount) { return skip(this.it, amount); }
Iterable_skip_method(this, amount) == skip(this.up, amount)

\* what a composer returns for the Sequence it is given
ApplyComposer(f, x) ==
  CASE f = "skip1" -> Iterable_skip(x, Num(1))
    [] f = "dflt" -> Iterable_defaultIfEmpty(x, 0)
    [] f = "bad" -> NotASequence

\* compose: the composers from the i-th on applied to acc, each checked to be
\* callable before it is invoked and its result checked to be a Sequence
RECURSIVE composeFrom(_, _, _)
composeFrom(acc, fs, i) ==
  IF i > Len(fs) THEN [seq |-> acc, invoked |-> Len(fs)]
  ELSE IF ~IsCallable(fs[i])
       THEN [seq |-> Throw("BadArgumentError"), invoked |-> i - 1]
       ELSE LET r == ApplyComposer(fs[i], acc)
            IN IF ~IsSequence(r) THEN [seq |-> Throw("TypeError"), invoked |-> i]
               ELSE composeFrom(r, fs, i + 1)

compose(iterable, fs) ==
  IF ~IterableCheck(iterable) THEN Throw("BadArgumentError")
  ELSE composeFrom(iterable, fs, 1).seq

\* the number of composers a compose call invoked
composeInvoked(iterable, fs) ==
  IF ~IterableCheck(iterable) THEN 0 ELSE composeFrom(iterable, fs, 1).invoked

\* the composers passed on in the opposite order
Iterable_compose_reversed(src, fs) ==
  compose(src, [i \in 1..Len(fs) |-> fs[Len(fs) + 1 - i]])
\* static compose(it, ...composers) { return compose(it, ...composers); }
Iterable_compose(src, fs) == compose(src, fs)
\* compose(...composers) { return compose(this.it, ...composers); }
Iterable_compose_method(this, fs) == compose(this.up, fs)

\* ------------------------------------------- the iterator of a Sequence
\* The state of one iterator: of an array iterator the position; of the
\* generator object a call of the generator procedure of an operator makes,
\* the place it is suspended at (ph), its local variables (flag of
\* defaultIfEmpty; A, B and the position in A of intersect) and the iterator
\* of its source (up).  A generator object handed in as a source has its
\* cursor in lcur, whoever reads it.
NewState ==
  [ph |-> "start", flag |-> TRUE, pos |-> 0, A |-> <<>>, B |-> <<>>, up |-> <<>>]

\* x[ITERATOR](): no element is read
RECURSIVE NewIter(_)
NewIter(x) ==
  IF "op" \notin DOMAIN x THEN NewState
  ELSE IF x.op = "plain" THEN NewIter(x.up)
  ELSE IF x.op \in {"defaultIfEmpty", "skip"} THEN [NewState EXCEPT !.up = NewIter(x.up)]
  ELSE NewState

\* a next() call that ended by throwing e
Failure(e, st, cur) ==
  [out |-> <<>>, done |-> TRUE, st |-> st, cur |-> cur, pulled |-> 0, got |-> <<>>,
   err |-> e]
\* a next() call on a generator object that has returned
Finished(st, cur) ==
  [out |-> <<>>, done |-> TRUE, st |-> st, cur |-> cur, pulled |-> 0, got |-> <<>>,
   err |-> "none"]

\* One next() call on the iterator of a source: out is <<v>> or <<>> at the
\* end; got is what the source named A gave.  A value that is not iterable
\* has no [ITERATOR] member to call.
SourceNext(x, st, cur) ==
  IF ~isIterable(x) THEN Failure("TypeError", st, cur)
  ELSE LET p == IF FreshIterator(x) THEN st.pos ELSE cur[x.id]
           r == UpstreamNext(x, p)
       IN [out |-> r, done |-> (r = <<>>),
           st |-> IF FreshIterator(x) THEN [st EXCEPT !.pos = p + Len(r)] ELSE st,
           cur |-> IF FreshIterator(x) THEN cur ELSE [cur EXCEPT ![x.id] = p + Len(r)],
           pulled |-> 1, got |-> IF x.id = "A" THEN r ELSE <<>>, err |-> "none"]

RECURSIVE IterNext(_, _, _)

\* toArray: the loop that reads the iterator to its end
RECURSIVE toArrayFrom(_, _, _, _)
toArrayFrom(x, st, cur, acc) ==
  LET r == IterNext(x, st, cur)
      now == [items |-> acc.items \o r.out, cur |-> r.cur,
              pulled |-> acc.pulled + r.pulled, got |-> acc.got \o r.got,
              err |-> r.err]
  IN IF r.err # "none" \/ r.done THEN now ELSE toArrayFrom(x, r.st, r.cur, now)

\* toArray(iterable): the argument is checked and traversed to its end by
\* the call, which returns an array of the elements
toArray(x, cur) ==
  IF ~IterableCheck(x)
  THEN [items |-> <<>>, cur |-> cur, pulled |-> 0, got |-> <<>>,
        err |-> "BadArgumentError"]
  ELSE toArrayFrom(x, NewIter(x), cur,
                   [items |-> <<>>, cur |-> cur, pulled |-> 0, got |-> <<>>,
                    err |-> "none"])

\* static toArray(it) { return toArray(it); }
Iterable_toArray(src, cur) == toArray(src, cur)

\* skip: the first n elements of the source are read and dropped, the next
\* one is passed on
RECURSIVE skipNext(_, _, _, _)
skipNext(up, ust, cur, n) ==
  LET r == IterNext(up, ust, cur)
  IN IF r.err # "none" \/ r.done \/ n = 0 THEN r
     ELSE LET q == skipNext(up, r.st, r.cur, n - 1)
          IN [q EXCEPT !.pulled = r.pulled + @, !.got = r.got \o @]

\* the flag cleared from the start: the value is never yielded
defaultIfEmptyNext_flagCleared(st, r, value) ==
  [r EXCEPT !.st = [st EXCEPT !.ph = IF r.done THEN "end" ELSE "loop",
                              !.flag = FALSE, !.up = r.st]]
\* let flag = true; for (const i of iterable) { yield i; flag = false; }
\* if (flag) { yield value; }
\* r is what the iterator of iterable answered to the next() call of the loop
defaultIfEmptyNext(st, r, value) ==
  IF ~r.done
  THEN [r EXCEPT !.st = [st EXCEPT !.ph = "loop", !.flag = FALSE, !.up = r.st]]
  ELSE IF st.flag
  THEN [r EXCEPT !.out = <<value>>, !.done = FALSE,
                 !.st = [st EXCEPT !.ph = "tail", !.up = r.st]]
  ELSE [r EXCEPT !.st = [st EXCEPT !.ph = "end", !.up = r.st]]

\* B.includes(i)
Includes(B, i) == \E j \in 1..Len(B) : B[j] = i

\* the loop run over B, testing A.includes
intersectNext_overB(A, B, pos) ==
  LET hits == {i \in (pos + 1)..Len(B) : Includes(A, B[i])}
      i == CHOOSE h \in hits : \A g \in hits : h <= g
  IN IF hits = {} THEN [out |-> <<>>, pos |-> Len(B)] ELSE [out |-> <<B[i]>>, pos |-> i]
\* for (const i of A) { if (B.includes(i)) { yield i; } }
\* resumed after pos elements of A: the next element of A that B includes
intersectNext(A, B, pos) ==
  LET hits == {i \in (pos + 1)..Len(A) : Includes(B, A[i])}
      i == CHOOSE h \in hits : \A g \in hits : h <= g
  IN IF hits = {} THEN [out |-> <<>>, pos |-> Len(A)] ELSE [out |-> <<A[i]>>, pos |-> i]

\* One next() call on the iterator, in state st, of the Sequence x, the
\* generator objects being at the cursors cur: the item yielded or the end,
\* the states afterwards, the next() calls made on the sources and the error
\* the call ended with.  The generator procedure of intersect calls toArray
\* on both sources when it is first resumed.
IterNext(x, st, cur) ==
  IF "op" \notin DOMAIN x THEN SourceNext(x, st, cur)
  ELSE CASE x.op = "plain" -> IterNext(x.up, st, cur)
         [] x.op = "array" ->
              LET r == UpstreamNext(x, st.pos)
              IN [out |-> r, done |-> (r = <<>>),
                  st |-> [st EXCEPT !.pos = @ + Len(r)], cur |-> cur,
                  pulled |-> 0, got |-> <<>>, err |-> "none"]
         [] x.op = "defaultIfEmpty" ->
              IF st.ph \in {"tail", "end"} THEN Finished(st, cur)
              ELSE LET r == IterNext(x.up, st.up, cur)
                   IN IF r.err # "none" THEN [r EXCEPT !.st = st]
                      ELSE defaultIfEmptyNext(st, r, x.arg)
         [] x.op = "intersect" ->
              LET kept == [cur |-> cur, pulled |-> 0, got |-> <<>>, err |-> "none"]
                  a == IF st.ph = "start" THEN toArray(x.up, cur)
                       ELSE [items |-> st.A] @@ kept
                  b == IF st.ph = "start" /\ a.err = "none" THEN toArray(x.arg, a.cur)
                       ELSE [items |-> st.B] @@ [kept EXCEPT !.cur = a.cur]
                  n == intersectNext(a.items, b.items, st.pos)
              IN IF a.err # "none" THEN Failure(a.err, st, a.cur)
                 ELSE IF b.err # "none" THEN Failure(b.err, st, b.cur)
                 ELSE [out |-> n.out, done |-> (n.out = <<>>),
                       st |-> [st EXCEPT !.ph = "loop", !.A = a.items,
                                         !.B = b.items, !.pos = n.pos],
                       cur |-> b.cur, pulled |-> a.pulled + b.pulled,
                       got |-> a.got \o b.got, err |-> "none"]
         [] x.op = "skip" ->
              LET r == skipNext(x.up, st.up, cur, IF st.ph = "start" THEN x.arg ELSE 0)
              IN [r EXCEPT !.st = [st EXCEPT !.ph = "loop", !.up = r.st]]

\* the body of the generator procedure run by the call itself
CallEffect_runsBody(x, h) ==
  IF x.op = "throw" THEN h
  ELSE LET r == toArray(x, h.cur) IN [cur |-> r.cur, pulls |-> h.pulls + r.pulled]
\* What the call of an operator that returns an Iterable does to the sources:
\* it checks its arguments and constructs an Iterable over a generator
\* procedure, which it does not invoke.
CallEffect(x, h) == h

\* the Sequence the class returns for a call in the static or the method shape
LazyCall(c, sh, src, a) ==
  IF sh = "method"
  THEN CASE c = "defaultIfEmpty" -> Iterable_defaultIfEmpty_method(Iterable_new(src), a)
         [] c = "intersect" -> Iterable_intersect_method(Iterable_new(src), a)
         [] c = "skip" -> Iterable_skip_method(Iterable_new(src), a)
         [] c = "compose" -> Iterable_compose_method(Iterable_new(src), a)
         [] c = "chain" ->
              LET inner == Iterable_intersect_method(Iterable_new(src), a.other)
              IN IF inner.op = "throw" THEN inner
                 ELSE Iterable_defaultIfEmpty(inner, a.value)
  ELSE CASE c = "defaultIfEmpty" -> Iterable_defaultIfEmpty(src, a)
         [] c = "intersect" -> Iterable_intersect(src, a)
         [] c = "skip" -> Iterable_skip(src, a)
         [] c = "compose" -> Iterable_compose(src, a)
         [] c = "chain" ->
              LET inner == Iterable_intersect(src, a.other)
              IN IF inner.op = "throw" THEN inner
                 ELSE Iterable_defaultIfEmpty(inner, a.value)

InitLazy ==
  /\ sys = "lazy"
  /\ it \in LazyA \cup InvalidValues
  /\ \/ /\ call = "defaultIfEmpty"
        /\ arg \in Defaults
     \/ /\ call = "intersect"
        /\ arg \in LazyB \cup {NotASequence}
     \/ /\ call = "skip"
        /\ arg \in Amounts
     \/ /\ call = "compose"
        /\ arg \in ComposerLists
     \/ /\ call = "chain"
        /\ \E b \in LazyB, v \in Defaults : arg = [other |-> b, value |-> v]
     \/ /\ call = "toArray"
        /\ arg = "none"
  /\ shape \in IF isIterable(it) /\ call # "toArray" THEN {"static", "method"}
              ELSE {"static"}
  /\ seq = [op |-> "unbuilt"]
  /\ lcur = [id \in {"A", "B"} |-> 0]
  /\ linv = 0
  /\ lit = [t \in Travs |-> <<>>]
  /\ lgot = [t \in Travs |-> <<>>]
  /\ est = "none"
  /\ res = <<>>
  /\ upPos = 0
  /\ produced = <<>>
  /\ pulls = 0
  /\ pullsAt = <<>>
  /\ buffer = <<>>
  /\ terminal = FALSE
  /\ tst = [t \in Travs |-> "idle"]
  /\ tpos = [t \in Travs |-> 0]
  /\ tout = [t \in Travs |-> <<>>]
  /\ overlap = FALSE
  /\ SplitIdle
  /\ ZipIdle
  /\ WrapIdle

\* the call of an operator that returns an Iterable
Build ==
  /\ sys = "lazy"
  /\ seq.op = "unbuilt"
  /\ call # "toArray"
  /\ LET x == LazyCall(call, shape, it, arg)
         h == CallEffect(x, [cur |-> lcur, pulls |-> pulls])
     IN /\ seq' = x
        /\ lcur' = h.cur
        /\ pulls' = h.pulls
  /\ linv' = IF call = "compose" THEN composeInvoked(it, arg) ELSE 0
  /\ UNCHANGED <<sys, call, it, arg, lit, lgot, upPos, produced, pullsAt, buffer,
                 terminal, tst, tpos, tout, overlap, splitVars, zipVars, eagerVars,
                 wrapVars>>

\* Iterable.toArray(it): the call returns an array
CallToArray ==
  /\ sys = "lazy"
  /\ seq.op = "unbuilt"
  /\ call = "toArray"
  /\ LET r == Iterable_toArray(it, lcur)
     IN /\ seq' = IF r.err # "none" THEN Throw(r.err)
                  ELSE [op |-> "array", items |-> r.items]
        /\ lcur' = r.cur
        /\ pulls' = pulls + r.pulled
  /\ UNCHANGED <<sys, call, it, arg, linv, lit, lgot, upPos, produced, pullsAt, buffer,
                 terminal, tst, tpos, tout, overlap, splitVars, zipVars, eagerVars,
                 wrapVars>>

\* seq[ITERATOR](): traversal t, the t-th one begun, obtains its iterator
TraverseBegin(t) ==
  /\ sys = "lazy"
  /\ seq.op \notin {"unbuilt", "throw"}
  /\ tst[t] = "idle"
  /\ \A u \in Travs : u < t => tst[u] # "idle"
  /\ tst' = [tst EXCEPT ![t] = "run"]
  /\ lit' = [lit EXCEPT ![t] = NewIter(seq)]
  /\ overlap' = (overlap \/ \E u \in Travs : tst[u] = "run")
  /\ UNCHANGED <<sys, call, it, arg, seq, lcur, linv, lgot, upPos, produced, pulls,
                 pullsAt, buffer, terminal, tpos, tout, splitVars, zipVars, eagerVars,
                 wrapVars>>

\* one next() call of traversal t; the caller's code, other traversals
\* included, runs between two of them
TraverseStep(t) ==
  /\ sys = "lazy"
  /\ tst[t] = "run"
  /\ LET r == IterNext(seq, lit[t], lcur)
     IN /\ tout' = [tout EXCEPT ![t] = @ \o r.out]
        /\ tst' = [tst EXCEPT ![t] = IF r.err # "none" THEN "threw"
                                     ELSE IF r.done THEN "done" ELSE "run"]
        /\ lit' = [lit EXCEPT ![t] = IF r.done THEN <<>> ELSE r.st]
        /\ lgot' = [lgot EXCEPT ![t] = @ \o r.got]
        /\ lcur' = r.cur
        /\ pulls' = pulls + r.pulled
  /\ tpos' = [tpos EXCEPT ![t] = @ + 1]
  /\ UNCHANGED <<sys, call, it, arg, seq, linv, upPos, produced, pullsAt, buffer,
                 terminal, overlap, splitVars, zipVars, eagerVars, wrapVars>>

\* the result is traversed twice; the two traversals may take turns
LazyTravs == {1, 2}

NextLazy ==
  \/ Build
  \/ CallToArray
  \/ \E t \in LazyTravs : TraverseBegin(t) \/ TraverseStep(t)

SpecLazy == InitLazy /\ [][NextLazy]_vars

\* ------------------------------------------------------- the whole model
Init ==
  InitCache \/ InitSplit \/ InitZip \/ InitEager \/ InitWrap \/ InitGet \/ InitLazy

Next ==
  NextCache \/ NextSplit \/ NextZip \/ NextEager \/ NextWrap \/ NextGet \/ NextLazy

Spec == Init /\ [][Next]_vars

\* ------------------------------------------------ split/partition claims
\* Reference results, computed from the caller's arguments alone.
Min2(a, b) == IF a <= b THEN a ELSE b
Max2(a, b) == IF a >= b THEN a ELSE b
RefTake(s, k) == SubSeq(s, 1, Min2(Max2(k, 0), Len(s)))
RefDrop(s, k) == SubSeq(s, Min2(Max2(k, 0), Len(s)) + 1, Len(s))
RefFilter(s, p, want) == SelectSeq(s, LAMBDA v : Holds(p, v) = want)
RefPrefixLen(s, p, want) ==
  LET bad == {i \in 1..Len(s) : Holds(p, s[i]) # want}
  IN IF bad = {} THEN Len(s) ELSE (CHOOSE i \in bad : \A j \in bad : i <= j) - 1
Expected(X) ==
  LET s == it.items IN
  CASE call = "split" -> IF X = "A" THEN RefTake(s, arg) ELSE RefDrop(s, arg)
    [] call = "spanWith" -> IF X = "A" THEN RefTake(s, RefPrefixLen(s, arg, TRUE))
                            ELSE RefDrop(s, RefPrefixLen(s, arg, TRUE))
    [] call = "breakWith" -> IF X = "A" THEN RefTake(s, RefPrefixLen(s, arg, FALSE))
                             ELSE RefDrop(s, RefPrefixLen(s, arg, FALSE))
    [] call = "partition" -> IF X = "A" THEN RefFilter(s, arg, TRUE)
                             ELSE RefFilter(s, arg, FALSE)
Given(X) == Len(bout[X]) + Len(bbuf[X])

\* C5: for a single-pass source S and a cutoff k in {0..|S|, |S|+5}, branch A
\* of split(S, k) yields the first min(k, |S|) elements, branch B the
\* remainder, and A followed by B is S.
C5_SplitConcat ==
  (call = "split" /\ it.kind = "single"
     /\ arg \in (0..Len(it.items)) \cup {Len(it.items) + 5}) =>
    LET n == Len(it.items)
        m == Min2(arg, n)
    IN /\ bst["A"] = "done" => bout["A"] = SubSeq(it.items, 1, m)
       /\ bst["B"] = "done" => bout["B"] = SubSeq(it.items, m + 1, n)
       /\ (bst["A"] = "done" /\ bst["B"] = "done")
            => bout["A"] \o bout["B"] = it.items

C5_Witness ==
  /\ call = "split" /\ it.kind = "single"
  /\ Len(it.items) = 3 /\ arg = 2
  /\ it.items[1] # it.items[2]
  /\ bst["A"] = "done" /\ bst["B"] = "done"
  /\ Len(bout["A"]) = 2 /\ Len(bout["B"]) = 1

\* C6: whatever the order of the pull steps on the two branches of split,
\* spanWith, breakWith or partition over a single-pass upstream, each branch
\* has yielded a prefix of its own elements in upstream order, all of them
\* once it is done, and every element the upstream produced is with exactly
\* one branch (delivered or waiting), none lost and none twice.
C6_BranchesUnderInterleaving ==
  (sys = "split" /\ it.kind = "single") =>
    /\ \A X \in Branches :
         /\ IsPrefix(bout[X], Expected(X))
         /\ bst[X] = "done" => bout[X] = Expected(X)
    /\ Given("A") + Given("B") = Len(produced)
    /\ IsPrefix(produced, it.items)

C6_Witness ==
  /\ call = "partition" /\ it.kind = "single"
  /\ bst["A"] = "run" /\ bst["B"] = "run"
  /\ bout["A"] # <<>> /\ bout["B"] # <<>>
  /\ bbuf["A"] # <<>>

\* C7: partition(S, p) gives every element occurrence of S to exactly one
\* branch, in original relative order: A ends as the elements satisfying p,
\* B as those failing p.
C7_Partition ==
  call = "partition" =>
    /\ \A i \in 1..Len(bout["A"]) : Holds(arg, bout["A"][i])
    /\ \A i \in 1..Len(bout["B"]) : ~Holds(arg, bout["B"][i])
    /\ bst["A"] = "done" => bout["A"] = RefFilter(it.items, arg, TRUE)
    /\ bst["B"] = "done" => bout["B"] = RefFilter(it.items, arg, FALSE)
    /\ (bst["A"] = "done" /\ bst["B"] = "done")
         => Len(bout["A"]) + Len(bout["B"]) = Len(it.items)

C7_Witness ==
  /\ call = "partition"
  /\ Len(it.items) = 3
  /\ Holds(arg, it.items[1]) /\ ~Holds(arg, it.items[2]) /\ Holds(arg, it.items[3])
  /\ bst["A"] = "done" /\ bst["B"] = "done"
  /\ Len(bout["A"]) = 2 /\ Len(bout["B"]) = 1

\* C8: spanWith gives A the longest prefix whose elements all satisfy p and B
\* everything from the first failing element on; breakWith the same with
\* "fail" for "satisfy".  After the first flip nothing more is given to A.
C8_SpanBreakPrefix ==
  /\ [](call \in {"spanWith", "breakWith"} =>
          LET want == (call = "spanWith")
              k == RefPrefixLen(it.items, arg, want)
          IN /\ bst["A"] = "done" => bout["A"] = SubSeq(it.items, 1, k)
             /\ bst["B"] = "done" => bout["B"] = SubSeq(it.items, k + 1, Len(it.items))
             /\ \A i \in 1..Len(bout["A"]) : Holds(arg, bout["A"][i]) = want)
  /\ [][(call \in {"spanWith", "breakWith"} /\ flipped)
          => flipped' /\ Given("A")' = Given("A")]_vars

C8_Witness ==
  /\ call = "spanWith"
  /\ Len(it.items) = 3
  /\ Holds(arg, it.items[1]) /\ ~Holds(arg, it.items[2]) /\ Holds(arg, it.items[3])
  /\ bst["A"] = "done" /\ bst["B"] = "done"
  /\ Len(bout["A"]) = 1 /\ Len(bout["B"]) = 2

\* C9: split with a cutoff <= 0 leaves branch A empty and gives B the whole
\* source; with a cutoff above the source length it leaves B empty and gives
\* A the whole source; over an empty upstream both branches are empty.
C9_SplitEdgeCases ==
  call = "split" =>
    /\ arg <= 0 => /\ bout["A"] = <<>>
                   /\ bst["B"] = "done" => bout["B"] = it.items
    /\ arg > Len(it.items) => /\ bout["B"] = <<>>
                              /\ bst["A"] = "done" => bout["A"] = it.items
    /\ it.items = <<>> => bout["A"] = <<>> /\ bout["B"] = <<>>

C9_Witness ==
  /\ call = "split"
  /\ arg < 0
  /\ Len(it.items) >= 2
  /\ bst["A"] = "done" /\ bst["B"] = "done"
  /\ bout["A"] = <<>> /\ bout["B"] = it.items

\* ------------------------------------------------------------ zip claims
ZipInputs == IF call = "zip" THEN it ELSE <<it>> \o arg.its
ZipFn == IF call = "zip" THEN arg ELSE arg.fn
ZipExpected(i) ==
  LET vals == <<ZipInputs[1].items[i], ZipInputs[2].items[i]>>
  IN CASE ZipFn = "none" -> [tuple |-> vals]
       [] ZipFn = "add" -> [value |-> vals[1] + vals[2]]
       [] ZipFn = "sub" -> [value |-> vals[1] - vals[2]]

\* C10: zip([A, B], f) yields min(|A|, |B|) values, the i-th being f of the
\* i-th values of A and B in input order, or their raw tuple when no combiner
\* is given; it ends at the step where an input signals completion, and the
\* inputs after that one are not pulled in that step.
C10_Zip ==
  call = "zip" =>
    LET a == it[1].items
        b == it[2].items
        m == Min2(Len(a), Len(b))
    IN /\ Len(zout) <= m
       /\ \A i \in 1..Len(zout) : zout[i] = ZipExpected(i)
       /\ zst = "done" =>
            /\ Len(zout) = m
            /\ zpos[1] = Min2(m + 1, Len(a))
            /\ zpos[2] = m

C10_Witness ==
  /\ call = "zip"
  /\ Len(it[1].items) = 3 /\ Len(it[2].items) = 2
  /\ arg = "add"
  /\ zst = "done"
  /\ zout = <<[value |-> it[1].items[1] + it[2].items[1]],
              [value |-> it[1].items[2] + it[2].items[2]]>>

\* ------------------------------------------------ branch buffer claims
\* the elements of s that belong to branch X, from the caller's arguments
ClassifiedTo(X, s) ==
  CASE call = "split" -> IF X = "A" THEN RefTake(s, arg) ELSE RefDrop(s, arg)
    [] call = "spanWith" -> IF X = "A" THEN RefTake(s, RefPrefixLen(s, arg, TRUE))
                            ELSE RefDrop(s, RefPrefixLen(s, arg, TRUE))
    [] call = "breakWith" -> IF X = "A" THEN RefTake(s, RefPrefixLen(s, arg, FALSE))
                             ELSE RefDrop(s, RefPrefixLen(s, arg, FALSE))
    [] call = "partition" -> IF X = "A" THEN RefFilter(s, arg, TRUE)
                             ELSE RefFilter(s, arg, FALSE)

\* C27: in every reachable state of split, spanWith, breakWith and partition,
\* for each branch X the elements delivered to X followed by the elements
\* buffered for X are, in production order, the upstream elements produced so
\* far that are classified to X, and every produced element is with exactly
\* one branch.
C27_BranchBufferInvariant ==
  sys = "split" =>
    /\ \A X \in Branches : bout[X] \o bbuf[X] = ClassifiedTo(X, produced)
    /\ Len(bout["A"]) + Len(bbuf["A"]) + Len(bout["B"]) + Len(bbuf["B"])
         = Len(produced)

C27_Witness ==
  /\ sys = "split"
  /\ call = "spanWith"
  /\ Len(produced) = 3
  /\ Len(bbuf["A"]) = 2
  /\ Len(bout["B"]) = 1
  /\ bout["A"] = <<>>

\* ------------------------------------------- claims on the Sequence object
\* an access was made in this step
Accessed == sys = "get" /\ glast'.n = glast.n + 1

\* C28: no traversal, get call or operator call changes the Sequence object:
\* its wrapped producer reference is the one it was constructed with, before
\* and after every step; an operator call returns another Sequence; only the
\* position of a wrapped single-pass producer changes.
C28_SequenceUnchanged ==
  [][(sys = "get" /\ seq.op = "plain") =>
       /\ seq' = seq
       /\ seq'.up = it
       /\ (Accessed /\ glast'.op \in {"call", "toArray"}) => glast'.value[1] # seq
       /\ (Accessed /\ glast'.op = "call") =>
            (glast'.value[1].op # "throw" /\ upPos' = upPos)
       /\ upPos' # upPos => ~FreshIterator(it)]_vars

C28_Witness ==
  /\ sys = "get"
  /\ it.kind = "single"
  /\ Len(it.items) = 3
  /\ glast.op = "get"
  /\ glast.n = 2
  /\ glast.value # Undefined
  /\ seq = Iterable_new(it)

\* C29: when get(i) finds its element on a Sequence that wraps a generator
\* object, the generator object is closed: every later get or traversal on
\* that Sequence finds no element, even when elements were left after i.
C29_GetClosesProducer ==
  [][(sys = "get" /\ it.kind = "single") =>
       /\ (Accessed /\ glast'.op = "get" /\ glast'.value # Undefined) => closed'
       /\ closed => closed'
       /\ closed =>
            /\ tout' = tout
            /\ (Accessed /\ glast'.op \in {"get", "index"}) => glast'.value = Undefined
            /\ (Accessed /\ glast'.op = "toArray") => glast'.value[1].items = <<>>]_vars

\* a traversal took the first element, get(0) found the second one and closed
\* the generator object, the traversal then ended, and a later get(0) found
\* nothing although a third element was left
C29_Witness ==
  /\ sys = "get"
  /\ it.kind = "single"
  /\ Len(it.items) = 3
  /\ closed
  /\ tst[1] = "done"
  /\ tout[1] = <<it.items[1]>>
  /\ glast.op = "get"
  /\ glast.index = Num(0)
  /\ glast.n = 2
  /\ glast.value = Undefined

\* ------------------------------------------------ claims on lazy operators
Built == sys = "lazy" /\ seq.op # "unbuilt"
NotTraversed == \A t \in Travs : tst[t] = "idle"
\* no next() call has been made on an iterator of the result
NoNextCall == \A t \in Travs : tpos[t] = 0
\* no traversal but t has made a next() call
Undisturbed(t) == \A u \in Travs \ {t} : tpos[u] = 0

\* the elements of a that occur in b, in a's order
RECURSIVE RefCommon(_, _)
RefCommon(a, b) ==
  IF a = <<>> THEN <<>>
  ELSE (IF Head(a) \in {b[j] : j \in 1..Len(b)} THEN <<Head(a)>> ELSE <<>>)
         \o RefCommon(Tail(a), b)

\* what a composer's result yields for a source yielding s
RefComposer(f, s) ==
  IF f = "skip1" THEN RefDrop(s, 1) ELSE IF s = <<>> THEN <<0>> ELSE s

\* the positions of the composers that are not callable or return no Sequence
Offenders(fs) == {i \in 1..Len(fs) : fs[i] \in {"bad", "notfn"}}
FirstOffender(fs) == CHOOSE i \in Offenders(fs) : \A j \in Offenders(fs) : i <= j

\* the call was given an argument it must reject
BadArgument ==
  \/ ~isIterable(it)
  \/ call = "intersect" /\ ~isIterable(arg)
  \/ call = "skip" /\ ~IsCount(arg)
  \/ call = "compose" /\ Offenders(arg) # {} /\ arg[FirstOffender(arg)] = "notfn"

\* C21 as stated: an operator call, or a chain of operator calls, pulls
\* nothing from any source: as long as no traversal of the result has begun,
\* no next() call has been made on a source and every generator object is
\* where it was.
C21_NoWorkAtBuildTime ==
  (sys = "lazy" /\ NotTraversed) =>
    /\ pulls = 0
    /\ lcur = [id \in {"A", "B"} |-> 0]

\* C21 as amended: the call of an operator that returns an Iterable, or a
\* chain of such calls, pulls nothing from any source until a traversal of
\* the result makes its first next() call; toArray, which returns an array,
\* reads its whole source within the call.
C21_NoWorkBeforeTraversal ==
  sys = "lazy" =>
    /\ (call # "toArray" /\ NoNextCall) =>
         /\ pulls = 0
         /\ lcur = [id \in {"A", "B"} |-> 0]
    /\ (call = "toArray" /\ Built /\ isIterable(it)) =>
         /\ seq = [op |-> "array", items |-> it.items]
         /\ pulls = Len(it.items) + 1
         /\ it.kind = "single" => lcur["A"] = Len(it.items)

C21_Witness ==
  /\ Built
  /\ call = "chain"
  /\ seq.op = "defaultIfEmpty"
  /\ seq.up.op = "intersect"
  /\ it.kind = "single"
  /\ Len(it.items) = 3
  /\ tst[1] = "run"
  /\ tpos[1] = 0
  /\ pulls = 0

\* C22: a Bad Argument error (a source that is no Sequence, a missing or
\* negative count, a composer that is not callable) is raised by the operator
\* call itself, before a Sequence is returned and before any source element is
\* pulled; no traversal ever ends with an error about the arguments.
C22_BadArgumentAtCall ==
  sys = "lazy" =>
    /\ \A t \in Travs : tst[t] # "threw"
    /\ (Built /\ BadArgument) =>
         /\ seq = Throw("BadArgumentError")
         /\ pulls = 0
         /\ NotTraversed

C22_Witness ==
  /\ Built
  /\ call = "defaultIfEmpty"
  /\ it.kind = "number"
  /\ seq = Throw("BadArgumentError")
  /\ pulls = 0

\* C23: compose(S, f1, ..., fn) is fn(...f2(f1(S))); when a composer returns
\* no Sequence a TypeError is raised at that composer and no later composer is
\* invoked; a composer that is not callable raises a Bad Argument error.
C23_Compose ==
  (Built /\ call = "compose" /\ isIterable(it)) =>
    LET fs == arg
        first == FirstOffender(fs)
    IN /\ Offenders(fs) = {} =>
            /\ linv = Len(fs)
            /\ Len(fs) = 1 => seq = ApplyComposer(fs[1], it)
            /\ Len(fs) = 2 => seq = ApplyComposer(fs[2], ApplyComposer(fs[1], it))
            /\ (tst[1] = "done" /\ (it.kind = "multi" \/ Undisturbed(1))) =>
                 tout[1] = IF Len(fs) = 1 THEN RefComposer(fs[1], it.items)
                           ELSE RefComposer(fs[2], RefComposer(fs[1], it.items))
       /\ (Offenders(fs) # {} /\ fs[first] = "bad") =>
            /\ seq = Throw("TypeError")
            /\ linv = first
       /\ (Offenders(fs) # {} /\ fs[first] = "notfn") =>
            seq = Throw("BadArgumentError")

C23_Witness ==
  /\ Built
  /\ call = "compose"
  /\ arg = <<"skip1", "dflt">>
  /\ Len(it.items) = 1
  /\ tst[1] = "done"
  /\ tout[1] = <<0>>

\* C24: a traversal of defaultIfEmpty(S, v) yields the elements S gives it,
\* in order and nothing else, when S gives at least one, and the single item
\* v when S gives none; a traversal that reads S alone, or an array, is given
\* every element of S.
C24_DefaultIfEmpty ==
  (Built /\ call = "defaultIfEmpty" /\ isIterable(it)) =>
    \A t \in Travs :
      /\ tst[t] = "run" =>
           (tout[t] = lgot[t] \/ (lgot[t] = <<>> /\ tout[t] = <<arg>>))
      /\ tst[t] = "done" =>
           tout[t] = IF lgot[t] = <<>> THEN <<arg>> ELSE lgot[t]
      /\ (tst[t] = "done" /\ (it.kind = "multi" \/ Undisturbed(t))) =>
           tout[t] = IF it.items = <<>> THEN <<arg>> ELSE it.items

\* two traversals over one generator object that take turns share its
\* elements, and neither yields v
C24_Witness ==
  /\ Built
  /\ call = "defaultIfEmpty"
  /\ it.kind = "single"
  /\ Len(it.items) = 3
  /\ tst[1] = "done"
  /\ tst[2] = "done"
  /\ tout[1] = <<it.items[1], it.items[3]>>
  /\ tout[2] = <<it.items[2]>>

\* C25: intersect(A, B) yields the elements of A, in A's order, that also
\* occur in B, and nothing that is absent from A or from B.
C25_Intersect ==
  (Built /\ call = "intersect" /\ isIterable(it) /\ isIterable(arg)) =>
    \A t \in Travs :
      (tst[t] = "done"
         /\ ((it.kind = "multi" /\ arg.kind = "multi") \/ Undisturbed(t))) =>
        /\ tout[t] = RefCommon(it.items, arg.items)
        /\ \A i \in 1..Len(tout[t]) :
             /\ \E j \in 1..Len(it.items) : it.items[j] = tout[t][i]
             /\ \E j \in 1..Len(arg.items) : arg.items[j] = tout[t][i]

C25_Witness ==
  /\ Built
  /\ call = "intersect"
  /\ it.items = <<1, 2, 1>>
  /\ arg.items = <<1>>
  /\ tst[1] = "done"
  /\ tout[1] = <<1, 1>>

\* C26: skip(S, n) with n >= 0 yields the elements of S at ordinals >= n in
\* their order: all of S for n = 0, nothing for n >= |S|.
C26_Skip ==
  (Built /\ call = "skip" /\ isIterable(it) /\ IsCount(arg)) =>
    \A t \in Travs :
      (tst[t] = "done" /\ (it.kind = "multi" \/ Undisturbed(t))) =>
        LET n == arg.num
            m == IF Len(it.items) > n THEN Len(it.items) - n ELSE 0
        IN /\ tout[t] = [i \in 1..m |-> it.items[n + i]]
           /\ n = 0 => tout[t] = it.items
           /\ n >= Len(it.items) => tout[t] = <<>>

C26_Witness ==
  /\ Built
  /\ call = "skip"
  /\ it.items = SkipBase
  /\ arg = Num(2)
  /\ tst[1] = "done"
  /\ tout[1] = <<3, 4>>

\* C30: the emptiness flag of defaultIfEmpty belongs to one traversal: over a
\* non-empty generator object that a first complete traversal exhausted, every
\* later traversal yields the single item v; over an array every traversal
\* yields the same sequence.
C30_FlagPerTraversal ==
  (Built /\ call = "defaultIfEmpty" /\ isIterable(it)) =>
    /\ (it.kind = "single" /\ it.items # <<>>) =>
         \A t, u \in Travs :
           (t # u /\ tst[u] = "done" /\ tout[u] = it.items /\ tst[t] = "done") =>
             tout[t] = <<arg>>
    /\ it.kind = "multi" =>
         \A t, u \in Travs : (tst[t] = "done" /\ tst[u] = "done") => tout[t] = tout[u]

C30_Witness ==
  /\ Built
  /\ call = "defaultIfEmpty"
  /\ it.kind = "single"
  /\ Len(it.items) = 3
  /\ tst[2] = "done"
  /\ tout[1] = it.items
  /\ tout[2] = <<0>>

====
